---- MODULE Spec2Model ----
(***************************************************************************)
(* Retry / backoff / total-timeout loops of the Alumnium test harness:     *)
(*   - AlumniWrapper._call_with_retries   (libs/al_wrapper.py)             *)
(*   - AlumniWrapper._is_usable_response  (libs/al_wrapper.py)             *)
(*   - safe_invoke, the patched PlannerAgent.invoke (conftest.py)          *)
(* Time is counted in whole clock units; doubling a float is exact, so the *)
(* backoff arithmetic is the integer arithmetic below.                     *)
(***************************************************************************)
EXTENDS Integers, Sequences, FiniteSets, TLC

(* ------------------------------ bounds --------------------------------- *)
\* largest max_retries the policy is drawn with
MaxRetriesBound == 3
\* largest retry_backoff the policy is drawn with
MaxBackoffBound == 2
\* longest time one attempt of the underlying operation may take
MaxOpDur == 2
\* longest time the clock may advance between reading start and the first check
MaxStartLag == 1
\* longest time time.sleep may sleep beyond the requested duration
MaxOversleep == 1

(* ------------------------------ values --------------------------------- *)
\* attribute names the two functions look at
ContentAttrs == <<"content", "text", "message", "choices">>
AllAttrs == {"content", "text", "message", "choices", "parsed", "raw", "__getitem__"}
\* what reading an attribute of an object can do
AttrStates == {"absent", "falsy", "truthy", "raises"}
\* types for which isinstance(res, (str, bytes, int, float, bool)) is true
Primitives == {"str", "bytes", "int", "float", "bool"}

NoAttrs == [a \in AllAttrs |-> "absent"]
None == [t |-> "None", truthy |-> FALSE, attrs |-> NoAttrs]
Prim(ty, tr) == [t |-> ty, truthy |-> tr, attrs |-> NoAttrs]
Obj(at) == [t |-> "obj", truthy |-> TRUE, attrs |-> at]
Dict(tr) == [t |-> "dict", truthy |-> tr, attrs |-> [NoAttrs EXCEPT !["__getitem__"] = "truthy"]]

\* every object over the four content-bearing attributes
ContentObjects ==
  { Obj([a \in AllAttrs |->
           IF a = "content" THEN c ELSE IF a = "text" THEN x
           ELSE IF a = "message" THEN m ELSE IF a = "choices" THEN h
           ELSE "absent"]) :
      c \in AttrStates, x \in AttrStates, m \in AttrStates, h \in AttrStates }
PrimitiveValues == { Prim(ty, tr) : ty \in Primitives, tr \in BOOLEAN }
\* inputs of the classifier
ClassifierInputs == {None} \cup PrimitiveValues \cup ContentObjects \cup {Dict(FALSE), Dict(TRUE)}

\* values the underlying operation returns in the retry loops
EmptyObj == Obj(NoAttrs)
EmptyContentObj == Obj([NoAttrs EXCEPT !["content"] = "falsy"])
TextObj == Obj([NoAttrs EXCEPT !["text"] = "truthy"])
RaisingObj == Obj([NoAttrs EXCEPT !["content"] = "raises"])
RetValues == {None, Prim("str", FALSE), Prim("str", TRUE), EmptyObj, EmptyContentObj,
              TextObj, RaisingObj, Dict(FALSE)}
\* exceptions (subclasses of Exception) the underlying operation raises
Excs == {"E1", "E2"}
\* goals passed to PlannerAgent.invoke
Goals == {"g1", "g2"}

(* --------------------------- the classifier ---------------------------- *)
\* getattr(res, attr, None) inside try/except Exception: val = None
GetAttrOrNone(res, attr) ==
  IF res.attrs[attr] \in {"absent", "raises"} THEN "falsy" ELSE res.attrs[attr]

RECURSIVE AnyTruthyAttr(_, _, _)
AnyTruthyAttr(res, attrs, i) ==
  IF i > Len(attrs) THEN FALSE
  ELSE IF GetAttrOrNone(res, attrs[i]) = "truthy" THEN TRUE
  ELSE AnyTruthyAttr(res, attrs, i + 1)

\* variant of _is_usable_response: an object that has no content attribute is
\* not usable
_is_usable_response_MissingContent(res) ==
  IF res.t = "None" THEN FALSE
  ELSE IF res.t \in Primitives THEN TRUE
  ELSE IF AnyTruthyAttr(res, ContentAttrs, 1) THEN TRUE
  ELSE res.attrs["content"] # "absent"

\* variant of _is_usable_response: an object without truthy content is not usable
_is_usable_response_StrictDefault(res) ==
  IF res.t = "None" THEN FALSE
  ELSE IF res.t \in Primitives THEN TRUE
  ELSE IF AnyTruthyAttr(res, ContentAttrs, 1) THEN TRUE
  ELSE FALSE

_is_usable_response(res) ==
  IF res.t = "None" THEN FALSE
  ELSE IF res.t \in Primitives THEN TRUE
  ELSE IF AnyTruthyAttr(res, ContentAttrs, 1) THEN TRUE
  ELSE TRUE

(* ----------------------- safe_invoke's return path --------------------- *)
\* line 66 of conftest.py: the test that makes safe_invoke retry
message_is_None(message) == message.t = "None"

\* hasattr(message, name): TRUE / FALSE, or "raises" when the lookup raises
\* something other than AttributeError
HasAttr(message, name) ==
  IF message.attrs[name] = "raises" THEN "raises"
  ELSE IF message.attrs[name] = "absent" THEN "no" ELSE "yes"

\* lines 76-88 of conftest.py: every path returns the message itself
safe_invoke_return(message) ==
  IF message.t = "dict" THEN message
  ELSE IF HasAttr(message, "__getitem__") = "raises" THEN message
  ELSE IF HasAttr(message, "__getitem__") = "yes" THEN message
  ELSE IF HasAttr(message, "content") = "raises" THEN message
  ELSE IF HasAttr(message, "content") = "yes" THEN message
  ELSE IF HasAttr(message, "parsed") = "raises" THEN message
  ELSE IF HasAttr(message, "parsed") = "yes" THEN message
  ELSE IF HasAttr(message, "raw") = "raises" THEN message
  ELSE IF HasAttr(message, "raw") = "yes" THEN message
  ELSE message

(* ------------------------------- state --------------------------------- *)
VARIABLES
  impl,             \* which loop runs: "wrapper" or "safe_invoke"
  max_retries,      \* policy
  retry_backoff,    \* policy
  timeout_seconds,  \* policy (total_timeout in safe_invoke)
  goal,             \* safe_invoke's goal argument
  pc,               \* position of the call
  now,              \* time.monotonic()
  start,            \* local: start
  attempt,          \* local: attempt
  backoff,          \* local: backoff
  elapsed,          \* local: elapsed, as read at the last check
  res,              \* local: res / message of the last attempt
  usable,           \* outcome of classifying res (classifier specification)
  outcomes,         \* history: kind of outcome of each attempt made
  raisedExcs,       \* history: exception of each attempt ("" when it returned)
  sleeps,           \* history: duration passed to each time.sleep
  checks,           \* history: elapsed as read at each pre-attempt check
  result,           \* what the call gave its caller
  inputs,           \* history: what the operation did on each attempt, before any
                    \* classification: "raises", "None" or "value"
  calls,            \* concurrent specification: the locals of each call in flight;
                    \* successive calls: what each finished call had reached
  callNo,           \* number of calls made on the wrapper so far
  method_name       \* name of the operation invoked on the wrapper

vars == <<impl, max_retries, retry_backoff, timeout_seconds, goal, pc, now, start,
          attempt, backoff, elapsed, res, usable, outcomes, raisedExcs, sleeps,
          checks, result, inputs, calls, callNo,
          method_name>>

\* state the sequential retry loops never touch
aside == <<calls, callNo, method_name>>

policy == <<impl, max_retries, retry_backoff, timeout_seconds, goal>>

\* timeouts the policy is drawn with: negative, zero, crossed early, crossed late, ample
Timeouts == {-1, 0, 1, 4, 60}

\* what the text of an error names: each field holds the value named, or nothing
NoMsg == [timeout |-> {}, attempts |-> {}, max_retries |-> {}, goal |-> {}, elapsed |-> {}]
NoResult == [kind |-> "none", val |-> None, exc |-> "", msg |-> NoMsg]
Returned(v) == [kind |-> "returned", val |-> v, exc |-> "", msg |-> NoMsg]
Reraised(e) == [kind |-> "reraised", val |-> None, exc |-> e, msg |-> NoMsg]

TypeOK ==
  /\ impl \in {"wrapper", "safe_invoke"}
  /\ max_retries \in 1..(MaxRetriesBound + 1)
  /\ pc \in {"start", "check", "attempt", "sleep_exc", "sleep_unusable", "returned", "raised", "classify", "classified", "concurrent", "dispatch"}
  /\ attempt \in Nat
  /\ Len(outcomes) = Len(raisedExcs)

Init ==
  /\ impl \in {"wrapper", "safe_invoke"}
  /\ max_retries \in 1..MaxRetriesBound
  /\ retry_backoff \in 1..MaxBackoffBound
  /\ timeout_seconds \in Timeouts
  /\ goal \in Goals
  /\ (impl = "wrapper" => goal = "g1")
  /\ pc = "start"
  /\ now = 0
  /\ start = 0
  /\ attempt = 0
  /\ backoff = 0
  /\ elapsed = 0
  /\ res = None
  /\ usable = FALSE
  /\ outcomes = <<>>
  /\ raisedExcs = <<>>
  /\ sleeps = <<>>
  /\ checks = <<>>
  /\ result = NoResult
  /\ inputs = <<>>
  /\ calls = <<>>
  /\ callNo = 1
  /\ method_name = "do"


(* ------------------- AlumniWrapper._call_with_retries ------------------ *)
WrapperTimeoutError ==
  [kind |-> "TimeoutError", val |-> None, exc |-> "",
   msg |-> [NoMsg EXCEPT !.timeout = {timeout_seconds}]]

WrapperRuntimeError ==
  [kind |-> "RuntimeError", val |-> None, exc |-> "",
   msg |-> [NoMsg EXCEPT !.max_retries = {max_retries}]]

\* lines 55-57: start = time.monotonic(); attempt = 0; backoff = retry_backoff
CWR_Start ==
  /\ impl = "wrapper"
  /\ pc = "start"
  /\ start' = now
  /\ attempt' = 0
  /\ backoff' = retry_backoff
  /\ pc' = "check"
  /\ UNCHANGED <<policy, aside, now, elapsed, res, usable, outcomes, inputs, raisedExcs, sleeps,
                 checks, result>>

\* variant of CWR_Check: elapsed >= timeout_seconds in place of >
CWR_Check_AtLeast ==
  /\ impl = "wrapper"
  /\ pc = "check"
  /\ \E lag \in 0..(IF attempt = 0 THEN MaxStartLag ELSE 0) :
       /\ now' = now + lag
       /\ attempt' = attempt + 1
       /\ elapsed' = now' - start
       /\ checks' = Append(checks, elapsed')
       /\ IF elapsed' >= timeout_seconds
            THEN /\ pc' = "raised"
                 /\ result' = WrapperTimeoutError
            ELSE /\ pc' = "attempt"
                 /\ UNCHANGED result
  /\ UNCHANGED <<policy, aside, start, backoff, res, usable, outcomes, inputs, raisedExcs, sleeps>>

\* variant of CWR_Check: the timeout is not checked before the first attempt
CWR_Check_SkipFirst ==
  /\ impl = "wrapper"
  /\ pc = "check"
  /\ \E lag \in 0..(IF attempt = 0 THEN MaxStartLag ELSE 0) :
       /\ now' = now + lag
       /\ attempt' = attempt + 1
       /\ elapsed' = now' - start
       /\ checks' = Append(checks, elapsed')
       /\ IF (attempt' > 1 /\ elapsed' > timeout_seconds)
            THEN /\ pc' = "raised"
                 /\ result' = WrapperTimeoutError
            ELSE /\ pc' = "attempt"
                 /\ UNCHANGED result
  /\ UNCHANGED <<policy, aside, start, backoff, res, usable, outcomes, inputs, raisedExcs, sleeps>>

\* lines 60-64: attempt += 1; elapsed = time.monotonic() - start; timeout check
CWR_Check ==
  /\ impl = "wrapper"
  /\ pc = "check"
  /\ \E lag \in 0..(IF attempt = 0 THEN MaxStartLag ELSE 0) :
       /\ now' = now + lag
       /\ attempt' = attempt + 1
       /\ elapsed' = now' - start
       /\ checks' = Append(checks, elapsed')
       /\ IF elapsed' > timeout_seconds
            THEN /\ pc' = "raised"
                 /\ result' = WrapperTimeoutError
            ELSE /\ pc' = "attempt"
                 /\ UNCHANGED result
  /\ UNCHANGED <<policy, aside, start, backoff, res, usable, outcomes, inputs, raisedExcs, sleeps>>

\* variant of CWR_AttemptRaises: attempt > max_retries in place of >=
CWR_AttemptRaises_OffByOne ==
  /\ impl = "wrapper"
  /\ pc = "attempt"
  /\ \E exc \in Excs, dur \in 0..MaxOpDur :
       /\ now' = now + dur
       /\ outcomes' = Append(outcomes, "Raised")
       /\ inputs' = Append(inputs, "raises")
       /\ raisedExcs' = Append(raisedExcs, exc)
       /\ IF attempt > max_retries
            THEN /\ pc' = "raised"
                 /\ result' = Reraised(exc)
            ELSE /\ pc' = "sleep_exc"
                 /\ UNCHANGED result
  /\ UNCHANGED <<policy, aside, start, attempt, backoff, elapsed, res, usable, sleeps, checks>>

\* variant of CWR_AttemptRaises: a new RuntimeError is raised in place of the bare raise
CWR_AttemptRaises_Wrapped ==
  /\ impl = "wrapper"
  /\ pc = "attempt"
  /\ \E exc \in Excs, dur \in 0..MaxOpDur :
       /\ now' = now + dur
       /\ outcomes' = Append(outcomes, "Raised")
       /\ inputs' = Append(inputs, "raises")
       /\ raisedExcs' = Append(raisedExcs, exc)
       /\ IF attempt >= max_retries
            THEN /\ pc' = "raised"
                 /\ result' = WrapperRuntimeError
            ELSE /\ pc' = "sleep_exc"
                 /\ UNCHANGED result
  /\ UNCHANGED <<policy, aside, start, attempt, backoff, elapsed, res, usable, sleeps, checks>>

\* lines 66-74: the underlying operation raises exc after taking dur
CWR_AttemptRaises ==
  /\ impl = "wrapper"
  /\ pc = "attempt"
  /\ \E exc \in Excs, dur \in 0..MaxOpDur :
       /\ now' = now + dur
       /\ outcomes' = Append(outcomes, "Raised")
       /\ inputs' = Append(inputs, "raises")
       /\ raisedExcs' = Append(raisedExcs, exc)
       /\ IF attempt >= max_retries
            THEN /\ pc' = "raised"
                 /\ result' = Reraised(exc)
            ELSE /\ pc' = "sleep_exc"
                 /\ UNCHANGED result
  /\ UNCHANGED <<policy, aside, start, attempt, backoff, elapsed, res, usable, sleeps, checks>>

\* variant of CWR_AttemptReturns: attempt > max_retries in place of >=
CWR_AttemptReturns_OffByOne ==
  /\ impl = "wrapper"
  /\ pc = "attempt"
  /\ \E v \in RetValues, dur \in 0..MaxOpDur :
       /\ now' = now + dur
       /\ res' = v
       /\ usable' = _is_usable_response(v)
       /\ raisedExcs' = Append(raisedExcs, "")
       /\ inputs' = Append(inputs, IF v.t = "None" THEN "None" ELSE "value")
       /\ IF ~ _is_usable_response(v)
            THEN /\ outcomes' = Append(outcomes, "Unusable")
                 /\ IF attempt > max_retries
                      THEN /\ pc' = "raised"
                           /\ result' = WrapperRuntimeError
                      ELSE /\ pc' = "sleep_unusable"
                           /\ UNCHANGED result
            ELSE /\ outcomes' = Append(outcomes, "Usable")
                 /\ pc' = "returned"
                 /\ result' = Returned(v)
  /\ UNCHANGED <<policy, aside, start, attempt, backoff, elapsed, sleeps, checks>>

\* variant of CWR_AttemptReturns: an unusable result is never terminal, the
\* loop sleeps and tries again whatever the attempt number
CWR_AttemptReturns_NoExhaustion ==
  /\ impl = "wrapper"
  /\ pc = "attempt"
  /\ \E v \in RetValues, dur \in 0..MaxOpDur :
       /\ now' = now + dur
       /\ res' = v
       /\ usable' = _is_usable_response(v)
       /\ raisedExcs' = Append(raisedExcs, "")
       /\ inputs' = Append(inputs, IF v.t = "None" THEN "None" ELSE "value")
       /\ IF ~ _is_usable_response(v)
            THEN /\ outcomes' = Append(outcomes, "Unusable")
                 /\ pc' = "sleep_unusable"
                 /\ UNCHANGED result
            ELSE /\ outcomes' = Append(outcomes, "Usable")
                 /\ pc' = "returned"
                 /\ result' = Returned(v)
  /\ UNCHANGED <<policy, aside, start, attempt, backoff, elapsed, sleeps, checks>>

\* lines 66-69, 80-91: the underlying operation returns v after taking dur
CWR_AttemptReturns ==
  /\ impl = "wrapper"
  /\ pc = "attempt"
  /\ \E v \in RetValues, dur \in 0..MaxOpDur :
       /\ now' = now + dur
       /\ res' = v
       /\ usable' = _is_usable_response(v)
       /\ raisedExcs' = Append(raisedExcs, "")
       /\ inputs' = Append(inputs, IF v.t = "None" THEN "None" ELSE "value")
       /\ IF ~ _is_usable_response(v)
            THEN /\ outcomes' = Append(outcomes, "Unusable")
                 /\ IF attempt >= max_retries
                      THEN /\ pc' = "raised"
                           /\ result' = WrapperRuntimeError
                      ELSE /\ pc' = "sleep_unusable"
                           /\ UNCHANGED result
            ELSE /\ outcomes' = Append(outcomes, "Usable")
                 /\ pc' = "returned"
                 /\ result' = Returned(v)
  /\ UNCHANGED <<policy, aside, start, attempt, backoff, elapsed, sleeps, checks>>

\* variant of CWR_SleepAfterException: the backoff is not doubled after an exception
CWR_SleepAfterException_NoDoubling ==
  /\ impl = "wrapper"
  /\ pc = "sleep_exc"
  /\ \E over \in 0..MaxOversleep :
       now' = now + backoff + over
  /\ sleeps' = Append(sleeps, backoff)
  /\ backoff' = backoff
  /\ pc' = "check"
  /\ UNCHANGED <<policy, aside, start, attempt, elapsed, res, usable, outcomes, inputs, raisedExcs,
                 checks, result>>

\* variant of CWR_SleepAfterException: the sleep is cut to what is left of
\* timeout_seconds
CWR_SleepAfterException_Shortened ==
  /\ impl = "wrapper"
  /\ pc = "sleep_exc"
  /\ LET left == timeout_seconds - (now - start)
         nap  == IF backoff <= left THEN backoff ELSE IF left > 0 THEN left ELSE 0
     IN  /\ \E over \in 0..MaxOversleep :
              now' = now + nap + over
         /\ sleeps' = Append(sleeps, nap)
  /\ backoff' = backoff * 2
  /\ pc' = "check"
  /\ UNCHANGED <<policy, aside, start, attempt, elapsed, res, usable, outcomes, inputs, raisedExcs,
                 checks, result>>

\* lines 76-78: after an exception, time.sleep(backoff); backoff *= 2; continue
CWR_SleepAfterException ==
  /\ impl = "wrapper"
  /\ pc = "sleep_exc"
  /\ \E over \in 0..MaxOversleep :
       now' = now + backoff + over
  /\ sleeps' = Append(sleeps, backoff)
  /\ backoff' = backoff * 2
  /\ pc' = "check"
  /\ UNCHANGED <<policy, aside, start, attempt, elapsed, res, usable, outcomes, inputs, raisedExcs,
                 checks, result>>

\* variant of CWR_SleepAfterUnusable: the backoff is kept on the wrapper
\* instance (self.retry_backoff *= 2)
CWR_SleepAfterUnusable_OnInstance ==
  /\ impl = "wrapper"
  /\ pc = "sleep_unusable"
  /\ \E over \in 0..MaxOversleep :
       now' = now + backoff + over
  /\ sleeps' = Append(sleeps, backoff)
  /\ backoff' = backoff * 2
  /\ retry_backoff' = retry_backoff * 2
  /\ pc' = "check"
  /\ UNCHANGED <<impl, max_retries, timeout_seconds, goal, aside, start, attempt, elapsed,
                 res, usable, outcomes, inputs, raisedExcs, checks, result>>

\* variant of CWR_SleepAfterUnusable: the backoff is not doubled after an unusable result
CWR_SleepAfterUnusable_NoDoubling ==
  /\ impl = "wrapper"
  /\ pc = "sleep_unusable"
  /\ \E over \in 0..MaxOversleep :
       now' = now + backoff + over
  /\ sleeps' = Append(sleeps, backoff)
  /\ backoff' = backoff
  /\ pc' = "check"
  /\ UNCHANGED <<policy, aside, start, attempt, elapsed, res, usable, outcomes, inputs, raisedExcs,
                 checks, result>>

\* lines 86-88: after an unusable result, time.sleep(backoff); backoff *= 2; continue
CWR_SleepAfterUnusable ==
  /\ impl = "wrapper"
  /\ pc = "sleep_unusable"
  /\ \E over \in 0..MaxOversleep :
       now' = now + backoff + over
  /\ sleeps' = Append(sleeps, backoff)
  /\ backoff' = backoff * 2
  /\ pc' = "check"
  /\ UNCHANGED <<policy, aside, start, attempt, elapsed, res, usable, outcomes, inputs, raisedExcs,
                 checks, result>>

(* ----------------------- safe_invoke (conftest.py) --------------------- *)
\* variant of PlannerTimeoutError: the attempt being started is counted as made
PlannerTimeoutError_CountsCurrent ==
  [kind |-> "TimeoutError", val |-> None, exc |-> "",
   msg |-> [NoMsg EXCEPT !.timeout = {timeout_seconds}, !.attempts = {attempt'}]]

PlannerTimeoutError ==
  [kind |-> "TimeoutError", val |-> None, exc |-> "",
   msg |-> [NoMsg EXCEPT !.timeout = {timeout_seconds}, !.attempts = {attempt' - 1}]]

PlannerRuntimeError ==
  [kind |-> "RuntimeError", val |-> None, exc |-> "",
   msg |-> [NoMsg EXCEPT !.max_retries = {max_retries}, !.goal = {goal}]]

\* lines 41-43
SI_Start ==
  /\ impl = "safe_invoke"
  /\ pc = "start"
  /\ start' = now
  /\ attempt' = 0
  /\ backoff' = retry_backoff
  /\ pc' = "check"
  /\ UNCHANGED <<policy, aside, now, elapsed, res, usable, outcomes, inputs, raisedExcs, sleeps,
                 checks, result>>

\* variant of SI_Check: total_timeout is taken as a budget per attempt
SI_Check_PerAttemptBudget ==
  /\ impl = "safe_invoke"
  /\ pc = "check"
  /\ \E lag \in 0..(IF attempt = 0 THEN MaxStartLag ELSE 0) :
       /\ now' = now + lag
       /\ attempt' = attempt + 1
       /\ elapsed' = now' - start
       /\ checks' = Append(checks, elapsed')
       /\ IF elapsed' > timeout_seconds * attempt'
            THEN /\ pc' = "raised"
                 /\ result' = PlannerTimeoutError
            ELSE /\ pc' = "attempt"
                 /\ UNCHANGED result
  /\ UNCHANGED <<policy, aside, start, backoff, res, usable, outcomes, inputs, raisedExcs, sleeps>>

\* lines 46-51
SI_Check ==
  /\ impl = "safe_invoke"
  /\ pc = "check"
  /\ \E lag \in 0..(IF attempt = 0 THEN MaxStartLag ELSE 0) :
       /\ now' = now + lag
       /\ attempt' = attempt + 1
       /\ elapsed' = now' - start
       /\ checks' = Append(checks, elapsed')
       /\ IF elapsed' > timeout_seconds
            THEN /\ pc' = "raised"
                 /\ result' = PlannerTimeoutError
            ELSE /\ pc' = "attempt"
                 /\ UNCHANGED result
  /\ UNCHANGED <<policy, aside, start, backoff, res, usable, outcomes, inputs, raisedExcs, sleeps>>

\* lines 53-60: original_invoke raises exc after taking dur
SI_AttemptRaises ==
  /\ impl = "safe_invoke"
  /\ pc = "attempt"
  /\ \E exc \in Excs, dur \in 0..MaxOpDur :
       /\ now' = now + dur
       /\ outcomes' = Append(outcomes, "Raised")
       /\ inputs' = Append(inputs, "raises")
       /\ raisedExcs' = Append(raisedExcs, exc)
       /\ IF attempt >= max_retries
            THEN /\ pc' = "raised"
                 /\ result' = Reraised(exc)
            ELSE /\ pc' = "sleep_exc"
                 /\ UNCHANGED result
  /\ UNCHANGED <<policy, aside, start, attempt, backoff, elapsed, res, usable, sleeps, checks>>

\* variant of SI_AttemptReturns: 'if not message' in place of 'if message is None'
SI_AttemptReturns_Falsy ==
  /\ impl = "safe_invoke"
  /\ pc = "attempt"
  /\ \E message \in RetValues, dur \in 0..MaxOpDur :
       /\ now' = now + dur
       /\ res' = message
       /\ raisedExcs' = Append(raisedExcs, "")
       /\ inputs' = Append(inputs, IF message.t = "None" THEN "None" ELSE "value")
       /\ IF ~ message.truthy
            THEN /\ outcomes' = Append(outcomes, "Unusable")
                 /\ IF attempt >= max_retries
                      THEN /\ pc' = "raised"
                           /\ result' = PlannerRuntimeError
                      ELSE /\ pc' = "sleep_unusable"
                           /\ UNCHANGED result
            ELSE /\ outcomes' = Append(outcomes, "Usable")
                 /\ pc' = "returned"
                 /\ result' = Returned(safe_invoke_return(message))
  /\ UNCHANGED <<policy, aside, start, attempt, backoff, elapsed, usable, sleeps, checks>>

\* lines 53-55, 65-88: original_invoke returns message after taking dur
SI_AttemptReturns ==
  /\ impl = "safe_invoke"
  /\ pc = "attempt"
  /\ \E message \in RetValues, dur \in 0..MaxOpDur :
       /\ now' = now + dur
       /\ res' = message
       /\ raisedExcs' = Append(raisedExcs, "")
       /\ inputs' = Append(inputs, IF message.t = "None" THEN "None" ELSE "value")
       /\ IF message.t = "None"
            THEN /\ outcomes' = Append(outcomes, "Unusable")
                 /\ IF attempt >= max_retries
                      THEN /\ pc' = "raised"
                           /\ result' = PlannerRuntimeError
                      ELSE /\ pc' = "sleep_unusable"
                           /\ UNCHANGED result
            ELSE /\ outcomes' = Append(outcomes, "Usable")
                 /\ pc' = "returned"
                 /\ result' = Returned(safe_invoke_return(message))
  /\ UNCHANGED <<policy, aside, start, attempt, backoff, elapsed, usable, sleeps, checks>>

\* lines 61-63: after an exception
SI_SleepAfterException ==
  /\ impl = "safe_invoke"
  /\ pc = "sleep_exc"
  /\ \E over \in 0..MaxOversleep :
       now' = now + backoff + over
  /\ sleeps' = Append(sleeps, backoff)
  /\ backoff' = backoff * 2
  /\ pc' = "check"
  /\ UNCHANGED <<policy, aside, start, attempt, elapsed, res, usable, outcomes, inputs, raisedExcs,
                 checks, result>>

\* variant of SI_SleepAfterNone: the interception keeps a constant backoff
SI_SleepAfterNone_NoDoubling ==
  /\ impl = "safe_invoke"
  /\ pc = "sleep_unusable"
  /\ \E over \in 0..MaxOversleep :
       now' = now + backoff + over
  /\ sleeps' = Append(sleeps, backoff)
  /\ backoff' = backoff
  /\ pc' = "check"
  /\ UNCHANGED <<policy, aside, start, attempt, elapsed, res, usable, outcomes, inputs, raisedExcs,
                 checks, result>>

\* lines 70-72: after a None message
SI_SleepAfterNone ==
  /\ impl = "safe_invoke"
  /\ pc = "sleep_unusable"
  /\ \E over \in 0..MaxOversleep :
       now' = now + backoff + over
  /\ sleeps' = Append(sleeps, backoff)
  /\ backoff' = backoff * 2
  /\ pc' = "check"
  /\ UNCHANGED <<policy, aside, start, attempt, elapsed, res, usable, outcomes, inputs, raisedExcs,
                 checks, result>>

Next ==
  \/ CWR_Start
  \/ CWR_Check
  \/ CWR_AttemptRaises
  \/ CWR_AttemptReturns
  \/ CWR_SleepAfterException
  \/ CWR_SleepAfterUnusable
  \/ SI_Start
  \/ SI_Check
  \/ SI_AttemptRaises
  \/ SI_AttemptReturns
  \/ SI_SleepAfterException
  \/ SI_SleepAfterNone

Spec == Init /\ [][Next]_vars

\* the same calls when every step of the loop completes: the clock read, an
\* attempt that returns or raises, and a sleep of finite length
SpecFair == Init /\ [][Next]_vars /\ WF_vars(Next)

(* -------------------- the classifier on its own ------------------------ *)
InitClassifier ==
  /\ impl = "wrapper"
  /\ max_retries = 1
  /\ retry_backoff = 1
  /\ timeout_seconds = 60
  /\ goal = "g1"
  /\ pc = "classify"
  /\ now = 0
  /\ start = 0
  /\ attempt = 0
  /\ backoff = 0
  /\ elapsed = 0
  /\ res \in ClassifierInputs
  /\ usable = FALSE
  /\ outcomes = <<>>
  /\ raisedExcs = <<>>
  /\ sleeps = <<>>
  /\ checks = <<>>
  /\ result = NoResult
  /\ inputs = <<>>
  /\ calls = <<>>
  /\ callNo = 1
  /\ method_name = "do"

\* one application of _is_usable_response to res
Classify ==
  /\ pc = "classify"
  /\ usable' = _is_usable_response(res)
  /\ pc' = "classified"
  /\ UNCHANGED <<policy, aside, now, start, attempt, backoff, elapsed, res, outcomes, inputs,
                 raisedExcs, sleeps, checks, result>>

NextClassifier == Classify

SpecClassifier == InitClassifier /\ [][NextClassifier]_vars

(* --------------- two concurrent calls on one AlumniWrapper ------------- *)
\* The calls run _call_with_retries in separate threads. Each has its own
\* frame (start, attempt, backoff, elapsed are Python locals); the wrapper's
\* timeout_seconds, max_retries, retry_backoff and the clock are shared. The
\* clock ticks on its own; time.sleep(backoff) returns once backoff has passed.
CallIds == {1, 2}
\* last clock reading of the concurrent specification
ConcMaxClock == 3
\* largest max_retries of the concurrent specification
ConcMaxRetries == 2
\* timeouts the shared policy is drawn with: crossed, ample
ConcTimeouts == {2, 60}

ConcFrame == [pc |-> "start", start |-> 0, attempt |-> 0, backoff |-> 0, elapsed |-> 0,
              since |-> 0, inputs |-> <<>>, sleeps |-> <<>>, checks |-> <<>>,
              kind |-> "none"]

InitConc ==
  /\ impl = "wrapper"
  /\ max_retries \in 1..ConcMaxRetries
  /\ retry_backoff = 1
  /\ timeout_seconds \in ConcTimeouts
  /\ goal = "g1"
  /\ pc = "concurrent"
  /\ now = 0
  /\ start = 0
  /\ attempt = 0
  /\ backoff = 0
  /\ elapsed = 0
  /\ res = None
  /\ usable = FALSE
  /\ outcomes = <<>>
  /\ raisedExcs = <<>>
  /\ sleeps = <<>>
  /\ checks = <<>>
  /\ result = NoResult
  /\ inputs = <<>>
  /\ calls = [c \in CallIds |-> ConcFrame]
  /\ callNo = 1
  /\ method_name = "do"

ConcUnchanged == <<policy, callNo, method_name, pc, start, attempt, backoff, elapsed, res, usable, outcomes,
                   raisedExcs, sleeps, checks, result, inputs>>

\* time.monotonic() advances
Conc_Tick ==
  /\ pc = "concurrent"
  /\ now < ConcMaxClock
  /\ now' = now + 1
  /\ UNCHANGED <<ConcUnchanged, calls>>

\* lines 55-57 in the frame of call c
Conc_Start(c) ==
  /\ calls[c].pc = "start"
  /\ calls' = [calls EXCEPT ![c] = [@ EXCEPT !.start = now, !.attempt = 0,
                                             !.backoff = retry_backoff, !.pc = "check"]]
  /\ UNCHANGED <<ConcUnchanged, now>>

\* lines 60-64 in the frame of call c
Conc_Check(c) ==
  /\ calls[c].pc = "check"
  /\ LET el == now - calls[c].start IN
       calls' = [calls EXCEPT ![c] =
                   [@ EXCEPT !.attempt = @ + 1,
                             !.elapsed = el,
                             !.checks = Append(@, el),
                             !.pc = IF el > timeout_seconds THEN "raised" ELSE "attempt",
                             !.kind = IF el > timeout_seconds THEN "TimeoutError" ELSE @]]
  /\ UNCHANGED <<ConcUnchanged, now>>

\* lines 66-74 in the frame of call c: the operation raises
Conc_AttemptRaises(c) ==
  /\ calls[c].pc = "attempt"
  /\ calls' = [calls EXCEPT ![c] =
                 [@ EXCEPT !.inputs = Append(@, "raises"),
                           !.since = now,
                           !.pc = IF calls[c].attempt >= max_retries THEN "raised" ELSE "sleep_exc",
                           !.kind = IF calls[c].attempt >= max_retries THEN "reraised" ELSE @]]
  /\ UNCHANGED <<ConcUnchanged, now>>

\* lines 66-69, 80-91 in the frame of call c: the operation returns v
Conc_AttemptReturns(c) ==
  /\ calls[c].pc = "attempt"
  /\ \E v \in {None, TextObj} :
       calls' = [calls EXCEPT ![c] =
         IF ~ _is_usable_response(v)
           THEN [@ EXCEPT !.inputs = Append(@, "None"),
                          !.since = now,
                          !.pc = IF calls[c].attempt >= max_retries THEN "raised"
                                 ELSE "sleep_unusable",
                          !.kind = IF calls[c].attempt >= max_retries THEN "RuntimeError" ELSE @]
           ELSE [@ EXCEPT !.inputs = Append(@, "value"),
                          !.pc = "returned",
                          !.kind = "returned"]]
  /\ UNCHANGED <<ConcUnchanged, now>>

\* lines 76-78 in the frame of call c; the sleep is over once backoff has passed
Conc_SleepAfterException(c) ==
  /\ calls[c].pc = "sleep_exc"
  /\ now >= calls[c].since + calls[c].backoff
  /\ calls' = [calls EXCEPT ![c] = [@ EXCEPT !.sleeps = Append(@, calls[c].backoff),
                                             !.backoff = @ * 2,
                                             !.pc = "check"]]
  /\ UNCHANGED <<ConcUnchanged, now>>

\* variant of Conc_SleepAfterUnusable: the backoff is kept on the wrapper
\* instance, so doubling it doubles it for every call in flight
Conc_SleepAfterUnusable_Shared(c) ==
  /\ calls[c].pc = "sleep_unusable"
  /\ now >= calls[c].since + calls[c].backoff
  /\ calls' = [d \in CallIds |->
                 IF d = c THEN [calls[d] EXCEPT !.sleeps = Append(@, calls[c].backoff),
                                                !.backoff = @ * 2,
                                                !.pc = "check"]
                 ELSE [calls[d] EXCEPT !.backoff = @ * 2]]
  /\ UNCHANGED <<ConcUnchanged, now>>

\* lines 86-88 in the frame of call c
Conc_SleepAfterUnusable(c) ==
  /\ calls[c].pc = "sleep_unusable"
  /\ now >= calls[c].since + calls[c].backoff
  /\ calls' = [calls EXCEPT ![c] = [@ EXCEPT !.sleeps = Append(@, calls[c].backoff),
                                             !.backoff = @ * 2,
                                             !.pc = "check"]]
  /\ UNCHANGED <<ConcUnchanged, now>>

NextConc ==
  \/ Conc_Tick
  \/ \E c \in CallIds : Conc_Start(c)
  \/ \E c \in CallIds : Conc_Check(c)
  \/ \E c \in CallIds : Conc_AttemptRaises(c)
  \/ \E c \in CallIds : Conc_AttemptReturns(c)
  \/ \E c \in CallIds : Conc_SleepAfterException(c)
  \/ \E c \in CallIds : Conc_SleepAfterUnusable(c)

SpecConc == InitConc /\ [][NextConc]_vars

(* ------------------ successive calls on one AlumniWrapper -------------- *)
\* largest max_retries of the successive-calls specification
SeqMaxRetries == 2
\* timeouts of the successive-calls specification: crossed, ample
SeqTimeouts == {1, 60}

InitSeq ==
  /\ impl = "wrapper"
  /\ max_retries \in 1..SeqMaxRetries
  /\ retry_backoff \in 1..2
  /\ timeout_seconds \in SeqTimeouts
  /\ goal = "g1"
  /\ pc = "start"
  /\ now = 0
  /\ start = 0
  /\ attempt = 0
  /\ backoff = 0
  /\ elapsed = 0
  /\ res = None
  /\ usable = FALSE
  /\ outcomes = <<>>
  /\ raisedExcs = <<>>
  /\ sleeps = <<>>
  /\ checks = <<>>
  /\ result = NoResult
  /\ inputs = <<>>
  /\ calls = <<>>
  /\ callNo = 1
  /\ method_name = "do"

\* the first call has returned or raised and its frame is gone; the caller
\* calls do / check / get once more on the same wrapper (lines 94-101)
Seq_NewCall ==
  /\ impl = "wrapper"
  /\ pc \in {"returned", "raised"}
  /\ callNo = 1
  /\ method_name = "do"
  /\ callNo' = callNo + 1
  /\ pc' = "start"
  /\ start' = 0
  /\ attempt' = 0
  /\ backoff' = 0
  /\ elapsed' = 0
  /\ res' = None
  /\ usable' = FALSE
  /\ outcomes' = <<>>
  /\ raisedExcs' = <<>>
  /\ sleeps' = <<>>
  /\ checks' = <<>>
  /\ inputs' = <<>>
  /\ result' = NoResult
  /\ calls' = Append(calls, [attempt |-> attempt, backoff |-> backoff, kind |-> result.kind])
  /\ UNCHANGED <<policy, method_name, now>>

NextSeq ==
  \/ CWR_Start
  \/ CWR_Check
  \/ CWR_AttemptRaises
  \/ CWR_AttemptReturns
  \/ CWR_SleepAfterException
  \/ CWR_SleepAfterUnusable
  \/ Seq_NewCall

SpecSeq == InitSeq /\ [][NextSeq]_vars

(* --------------- the wrapper with log sinks that can fail -------------- *)
\* what one sink does when called: it returns, or it raises
SinkOutcomes == {"ok", "raises"}
\* timeouts of the logging specification: crossed, ample
LogTimeouts == {1, 60}
\* values the operation returns in the logging specification
LogRetValues == {None, TextObj}

\* lines 23-30: _log calls the configured sink (rp) and, when that raises, the
\* module logger (fb) outside any try; it returns unless both raise
_log(rp, fb) ==
  IF rp = "ok" THEN "returns"
  ELSE IF fb = "ok" THEN "returns"
  ELSE "raises"

\* the exception of a failed sink, propagated to the caller of the wrapper
LogFailure == [kind |-> "LogError", val |-> None, exc |-> "LogError", msg |-> NoMsg]

InitLog ==
  /\ impl = "wrapper"
  /\ max_retries \in 1..MaxRetriesBound
  /\ retry_backoff = 1
  /\ timeout_seconds \in LogTimeouts
  /\ goal = "g1"
  /\ pc = "start"
  /\ now = 0
  /\ start = 0
  /\ attempt = 0
  /\ backoff = 0
  /\ elapsed = 0
  /\ res = None
  /\ usable = FALSE
  /\ outcomes = <<>>
  /\ raisedExcs = <<>>
  /\ sleeps = <<>>
  /\ checks = <<>>
  /\ result = NoResult
  /\ inputs = <<>>
  /\ calls = <<>>
  /\ callNo = 1
  /\ method_name = "do"

\* lines 60-64, with the error log of line 63
Log_Check ==
  /\ impl = "wrapper"
  /\ pc = "check"
  /\ \E lag \in 0..(IF attempt = 0 THEN MaxStartLag ELSE 0), rp \in SinkOutcomes, fb \in SinkOutcomes :
       /\ now' = now + lag
       /\ attempt' = attempt + 1
       /\ elapsed' = now' - start
       /\ checks' = Append(checks, elapsed')
       /\ IF elapsed' > timeout_seconds
            THEN /\ pc' = "raised"
                 /\ result' = IF _log(rp, fb) = "raises" THEN LogFailure
                              ELSE WrapperTimeoutError
            ELSE /\ pc' = "attempt"
                 /\ UNCHANGED result
  /\ UNCHANGED <<policy, aside, start, backoff, res, usable, outcomes, inputs, raisedExcs, sleeps>>

\* lines 66-67 and 70-78: the debug log of line 67 raises inside the try, the
\* operation is not invoked, and the except clause takes the log's exception
\* for a failure of the attempt (warning log at 71, error log at 73)
Log_AttemptLogRaises ==
  /\ impl = "wrapper"
  /\ pc = "attempt"
  /\ _log("raises", "raises") = "raises"
  /\ \E rp \in SinkOutcomes, fb \in SinkOutcomes :
       /\ outcomes' = Append(outcomes, "LogRaised")
       /\ raisedExcs' = Append(raisedExcs, "LogError")
       /\ inputs' = Append(inputs, "not invoked")
       /\ IF _log(rp, fb) = "raises"
            THEN /\ pc' = "raised"
                 /\ result' = LogFailure
            ELSE IF attempt >= max_retries
            THEN /\ pc' = "raised"
                 /\ result' = Reraised("LogError")
            ELSE /\ pc' = "sleep_exc"
                 /\ UNCHANGED result
  /\ UNCHANGED <<policy, aside, now, start, attempt, backoff, elapsed, res, usable, sleeps, checks>>

\* lines 66-78: the debug log returns and the operation raises exc; the
\* warning log of line 71 and the error log of line 73 run inside the handler
Log_AttemptRaises ==
  /\ impl = "wrapper"
  /\ pc = "attempt"
  /\ \E exc \in Excs, dur \in 0..MaxOpDur, rp \in SinkOutcomes, fb \in SinkOutcomes :
       /\ now' = now + dur
       /\ outcomes' = Append(outcomes, "Raised")
       /\ raisedExcs' = Append(raisedExcs, exc)
       /\ inputs' = Append(inputs, "raises")
       /\ IF _log(rp, fb) = "raises"
            THEN /\ pc' = "raised"
                 /\ result' = LogFailure
            ELSE IF attempt >= max_retries
            THEN /\ pc' = "raised"
                 /\ result' = Reraised(exc)
            ELSE /\ pc' = "sleep_exc"
                 /\ UNCHANGED result
  /\ UNCHANGED <<policy, aside, start, attempt, backoff, elapsed, res, usable, sleeps, checks>>

\* lines 66-69, 80-91: the debug log returns and the operation returns v; the
\* warning log of line 82 and the error log of line 84 run outside any try
Log_AttemptReturns ==
  /\ impl = "wrapper"
  /\ pc = "attempt"
  /\ \E v \in LogRetValues, dur \in 0..MaxOpDur, rp \in SinkOutcomes, fb \in SinkOutcomes :
       /\ now' = now + dur
       /\ res' = v
       /\ usable' = _is_usable_response(v)
       /\ raisedExcs' = Append(raisedExcs, "")
       /\ inputs' = Append(inputs, IF v.t = "None" THEN "None" ELSE "value")
       /\ IF ~ _is_usable_response(v)
            THEN /\ outcomes' = Append(outcomes, "Unusable")
                 /\ IF _log(rp, fb) = "raises"
                      THEN /\ pc' = "raised"
                           /\ result' = LogFailure
                      ELSE IF attempt >= max_retries
                      THEN /\ pc' = "raised"
                           /\ result' = WrapperRuntimeError
                      ELSE /\ pc' = "sleep_unusable"
                           /\ UNCHANGED result
            ELSE /\ outcomes' = Append(outcomes, "Usable")
                 /\ pc' = "returned"
                 /\ result' = Returned(v)
  /\ UNCHANGED <<policy, aside, start, attempt, backoff, elapsed, sleeps, checks>>

NextLog ==
  \/ CWR_Start
  \/ Log_Check
  \/ Log_AttemptLogRaises
  \/ Log_AttemptRaises
  \/ Log_AttemptReturns
  \/ CWR_SleepAfterException
  \/ CWR_SleepAfterUnusable

SpecLog == InitLog /\ [][NextLog]_vars

(* -------------------- dispatch onto the retry loop --------------------- *)
\* the convenience operations the wrapper defines (lines 94-101)
ConvenienceOps == {"do", "check", "get"}
\* operations the wrapped Alumni object exposes: hasattr(self._alumni, name)
TargetOps == {"do", "check", "get", "click"}
\* names invoked on the wrapper
InvokedNames == {"do", "check", "get", "click", "missing"}
\* timeouts of the dispatch specification: crossed, ample
DispatchTimeouts == {1, 60}

AttributeError == [kind |-> "AttributeError", val |-> None, exc |-> "", msg |-> NoMsg]

InitDispatch ==
  /\ impl = "wrapper"
  /\ max_retries \in 1..MaxRetriesBound
  /\ retry_backoff = 1
  /\ timeout_seconds \in DispatchTimeouts
  /\ goal = "g1"
  /\ pc = "dispatch"
  /\ now = 0
  /\ start = 0
  /\ attempt = 0
  /\ backoff = 0
  /\ elapsed = 0
  /\ res = None
  /\ usable = FALSE
  /\ outcomes = <<>>
  /\ raisedExcs = <<>>
  /\ sleeps = <<>>
  /\ checks = <<>>
  /\ result = NoResult
  /\ inputs = <<>>
  /\ calls = <<>>
  /\ callNo = 1
  /\ method_name \in InvokedNames

DispatchUnchanged == <<policy, aside, now, start, attempt, backoff, elapsed, res, usable,
                       outcomes, inputs, raisedExcs, sleeps, checks>>

\* lines 94-101: do, check and get call _call_with_retries with their name
Dispatch_Convenience ==
  /\ pc = "dispatch"
  /\ method_name \in ConvenienceOps
  /\ pc' = "start"
  /\ UNCHANGED <<DispatchUnchanged, result>>

\* variant of Dispatch_GetAttr: __getattr__ hands out the target's own method,
\* which is then called once, outside the retry loop, and returns None
Dispatch_GetAttr_Unwrapped ==
  /\ pc = "dispatch"
  /\ method_name \notin ConvenienceOps
  /\ IF method_name \in TargetOps
       THEN /\ pc' = "returned"
            /\ inputs' = Append(inputs, "None")
            /\ result' = Returned(None)
       ELSE /\ pc' = "raised"
            /\ inputs' = inputs
            /\ result' = AttributeError
  /\ UNCHANGED <<policy, aside, now, start, attempt, backoff, elapsed, res, usable,
                 outcomes, raisedExcs, sleeps, checks>>

\* lines 104-110: any other name reaches __getattr__, which wraps it in
\* _call_with_retries when the target has it and raises AttributeError otherwise
Dispatch_GetAttr ==
  /\ pc = "dispatch"
  /\ method_name \notin ConvenienceOps
  /\ IF method_name \in TargetOps
       THEN /\ pc' = "start"
            /\ inputs' = inputs
            /\ UNCHANGED result
       ELSE /\ pc' = "raised"
            /\ inputs' = inputs
            /\ result' = AttributeError
  /\ UNCHANGED <<policy, aside, now, start, attempt, backoff, elapsed, res, usable,
                 outcomes, raisedExcs, sleeps, checks>>

NextDispatch ==
  \/ Dispatch_Convenience
  \/ Dispatch_GetAttr
  \/ CWR_Start
  \/ CWR_Check
  \/ CWR_AttemptRaises
  \/ CWR_AttemptReturns
  \/ CWR_SleepAfterException
  \/ CWR_SleepAfterUnusable

SpecDispatch == InitDispatch /\ [][NextDispatch]_vars

(* ============================ properties =============================== *)
RECURSIVE Pow2(_)
Pow2(n) == IF n = 0 THEN 1 ELSE 2 * Pow2(n - 1)

\* the first n sleeps of a call: retry_backoff * 2^(i-1), i = 1..n
ExpectedSleeps(n) == [i \in 1..n |-> retry_backoff * Pow2(i - 1)]

\* the first n attempts all had an outcome of one of the kinds
FirstAre(n, kinds) == /\ Len(outcomes) >= n
                      /\ \A i \in 1..n : outcomes[i] \in kinds

Terminal == pc \in {"returned", "raised"}
Retrying == pc \in {"sleep_exc", "sleep_unusable", "check", "attempt"}

\* C1: in AlumniWrapper._call_with_retries, n Unusable results (1 <= n <
\* max_retries) followed by a Usable one make the call return that value
\* after exactly n+1 attempts and n sleeps of retry_backoff * 2^(i-1); until
\* then the call is still retrying unless a pre-attempt check timed out.
C1_UnusableThenUsable ==
  impl = "wrapper" =>
    \A n \in 1..(max_retries - 1) :
      /\ (FirstAre(n, {"Unusable"}) /\ Len(outcomes) = n) =>
           \/ Retrying /\ result = NoResult
           \/ pc = "raised" /\ result.kind = "TimeoutError"
      /\ (FirstAre(n, {"Unusable"}) /\ Len(outcomes) > n /\ outcomes[n + 1] = "Usable") =>
           /\ pc = "returned"
           /\ result = Returned(res)
           /\ _is_usable_response(res)
           /\ attempt = n + 1
           /\ Len(outcomes) = n + 1
           /\ sleeps = ExpectedSleeps(n)

C1_Witness ==
  /\ impl = "wrapper"
  /\ max_retries = 3
  /\ retry_backoff = 2
  /\ outcomes = <<"Unusable", "Unusable", "Usable">>
  /\ sleeps = <<2, 4>>
  /\ pc = "returned"
  /\ result = Returned(TextObj)

\* C2: Raised and Unusable attempts drive one retry state: after k <
\* max_retries failed attempts of either kind, in any mix, a Usable result is
\* returned after k+1 attempts and k sleeps retry_backoff, 2*retry_backoff, ...
\* whichever kinds of failure came before; the attempt counter and the backoff
\* advance by the same amount after either kind.
C2_MixedFailuresShareState ==
  impl = "wrapper" =>
    /\ \A k \in 1..(max_retries - 1) :
         (FirstAre(k, {"Raised", "Unusable"}) /\ Len(outcomes) > k /\ outcomes[k + 1] = "Usable") =>
           /\ pc = "returned"
           /\ result = Returned(res)
           /\ attempt = k + 1
           /\ Len(outcomes) = k + 1
           /\ sleeps = ExpectedSleeps(k)
    /\ (pc \in {"sleep_exc", "sleep_unusable"}) =>
           /\ attempt = Len(outcomes)
           /\ attempt = Len(sleeps) + 1
           /\ backoff = retry_backoff * Pow2(attempt - 1)
    /\ (pc \in {"check", "attempt"}) => backoff = retry_backoff * Pow2(Len(sleeps))

C2_Witness ==
  /\ impl = "wrapper"
  /\ max_retries = 3
  /\ retry_backoff = 1
  /\ timeout_seconds = 60
  /\ outcomes = <<"Raised", "Raised", "Usable">>
  /\ sleeps = <<1, 2>>
  /\ pc = "returned"
  /\ result = Returned(Prim("str", TRUE))

C2_WitnessMixed ==
  /\ impl = "wrapper"
  /\ outcomes = <<"Unusable", "Raised", "Usable">>
  /\ pc = "returned"

\* C3: when every attempt of the wrapper returns an Unusable result and no
\* check times out, the call ends after exactly max_retries attempts and
\* max_retries - 1 sleeps with a RuntimeError of its own (not an error of the
\* operation); the last attempt is not followed by a sleep.
C3_AllUnusableExhausts ==
  impl = "wrapper" =>
    /\ (FirstAre(max_retries, {"Unusable"})) =>
         /\ pc = "raised"
         /\ result.kind = "RuntimeError"
         /\ result.exc = ""
         /\ result.exc \notin Excs
         /\ attempt = max_retries
         /\ Len(outcomes) = max_retries
         /\ sleeps = ExpectedSleeps(max_retries - 1)
    /\ (result.kind = "RuntimeError") =>
         /\ Len(outcomes) = max_retries
         /\ outcomes[max_retries] = "Unusable"
         /\ Len(sleeps) = max_retries - 1

C3_Witness ==
  /\ impl = "wrapper"
  /\ max_retries = 3
  /\ retry_backoff = 1
  /\ outcomes = <<"Unusable", "Unusable", "Unusable">>
  /\ sleeps = <<1, 2>>
  /\ pc = "raised"
  /\ result.kind = "RuntimeError"

\* C4: when every attempt of the wrapper raises and no check times out, the
\* call makes exactly max_retries attempts and max_retries - 1 sleeps and then
\* propagates the error of the last attempt itself; no error is propagated
\* from an attempt numbered below max_retries.
C4_AllRaisedPropagatesLast ==
  impl = "wrapper" =>
    /\ (FirstAre(max_retries, {"Raised"})) =>
         /\ pc = "raised"
         /\ result = Reraised(raisedExcs[max_retries])
         /\ attempt = max_retries
         /\ Len(outcomes) = max_retries
         /\ sleeps = ExpectedSleeps(max_retries - 1)
    /\ (result.kind = "reraised") =>
         /\ attempt = max_retries
         /\ Len(outcomes) = max_retries
         /\ outcomes[max_retries] = "Raised"
         /\ result.exc = raisedExcs[max_retries]
         /\ result.msg = NoMsg
    /\ \A i \in 1..Len(outcomes) :
         (outcomes[i] = "Raised" /\ i < max_retries /\ Len(outcomes) = i) =>
           /\ result.kind # "reraised"
           /\ result.exc = ""

C4_Witness ==
  /\ impl = "wrapper"
  /\ max_retries = 3
  /\ outcomes = <<"Raised", "Raised", "Raised">>
  /\ raisedExcs = <<"E1", "E1", "E2">>
  /\ Len(sleeps) = 2
  /\ pc = "raised"
  /\ result = Reraised("E2")

\* C5: with max_retries = 1 a first attempt of the wrapper that raises or
\* returns an Unusable result ends the call: one invocation, no sleep.
C5_SingleAttemptNoSleep ==
  (impl = "wrapper" /\ max_retries = 1) =>
    /\ sleeps = <<>>
    /\ pc \notin {"sleep_exc", "sleep_unusable"}
    /\ Len(outcomes) <= 1
    /\ (Len(outcomes) = 1 /\ outcomes[1] \in {"Raised", "Unusable"}) =>
         /\ pc = "raised"
         /\ attempt = 1
         /\ result.kind = (IF outcomes[1] = "Raised" THEN "reraised" ELSE "RuntimeError")

C5_Witness ==
  /\ impl = "wrapper"
  /\ max_retries = 1
  /\ outcomes = <<"Unusable">>
  /\ sleeps = <<>>
  /\ pc = "raised"
  /\ result.kind = "RuntimeError"

\* C6 (as claimed): once timeout_seconds has elapsed the wrapper never fails
\* with the exhausted-retries RuntimeError, also when the budget is crossed
\* during the attempt whose failure exhausts the attempt count.
C6_Original ==
  (impl = "wrapper" /\ pc = "raised" /\ result.kind = "RuntimeError") =>
    now - start <= timeout_seconds

\* C6 (amended): the timeout has priority at the pre-attempt checks only. A
\* check that reads elapsed > timeout_seconds ends the call with TimeoutError
\* whatever the attempt count, and nothing else raises TimeoutError; the
\* exhausted-retries error and the re-raised exception come from the
\* max_retries-th attempt, all of whose checks were within the budget, even
\* when the budget was crossed while that attempt ran.
C6_TimeoutPriorityAtChecks ==
  impl = "wrapper" =>
    /\ (result.kind = "TimeoutError") <=>
         (checks # <<>> /\ checks[Len(checks)] > timeout_seconds)
    /\ (checks # <<>> /\ checks[Len(checks)] > timeout_seconds) =>
         /\ pc = "raised"
         /\ Len(outcomes) = Len(checks) - 1
         /\ attempt = Len(checks)
         /\ attempt <= max_retries
    /\ (result.kind \in {"RuntimeError", "reraised"}) =>
         /\ Len(outcomes) = max_retries
         /\ \A i \in 1..Len(checks) : checks[i] <= timeout_seconds

\* timeout at the check before the last allowed attempt, after two failures
C6_Witness ==
  /\ impl = "wrapper"
  /\ max_retries = 3
  /\ Len(outcomes) = 2
  /\ Len(checks) = 3
  /\ checks[3] > timeout_seconds
  /\ pc = "raised"
  /\ result.kind = "TimeoutError"

\* the budget is crossed during the last attempt, which then fails
C6_WitnessCrossedInLastAttempt ==
  /\ impl = "wrapper"
  /\ max_retries = 2
  /\ pc = "raised"
  /\ result.kind = "RuntimeError"
  /\ Len(checks) = 2
  /\ checks[2] <= timeout_seconds
  /\ now - start > timeout_seconds

\* C7 (as claimed): with timeout_seconds <= 0 the wrapper never invokes the
\* operation and never sleeps, whatever the clock reads at the first check.
C7_Original ==
  (impl = "wrapper" /\ timeout_seconds <= 0) =>
    /\ pc # "attempt"
    /\ outcomes = <<>>
    /\ sleeps = <<>>

\* C7 (amended): the first check fails the call, before any attempt and any
\* sleep, when timeout_seconds is negative, or is 0 and the clock has advanced
\* since start was read; with timeout_seconds = 0 and an elapsed time of
\* exactly 0 at the first check the check passes and the first attempt is made.
C7_ZeroOrNegativeTimeout ==
  impl = "wrapper" =>
    /\ (timeout_seconds < 0 \/ (timeout_seconds = 0 /\ checks # <<>> /\ checks[1] > 0)) =>
         /\ pc \in {"start", "check", "raised"}
         /\ outcomes = <<>>
         /\ sleeps = <<>>
         /\ Len(checks) <= 1
         /\ (checks # <<>>) => (pc = "raised" /\ result = WrapperTimeoutError)
    /\ (timeout_seconds = 0 /\ checks # <<>> /\ checks[1] = 0 /\ Len(checks) = 1) =>
         /\ result.kind # "TimeoutError"
         /\ (pc = "attempt" \/ Len(outcomes) = 1)

C7_Witness ==
  /\ impl = "wrapper"
  /\ timeout_seconds = 0
  /\ checks = <<1>>
  /\ outcomes = <<>>
  /\ pc = "raised"
  /\ result.kind = "TimeoutError"

C7_WitnessNegative ==
  /\ impl = "wrapper"
  /\ timeout_seconds < 0
  /\ checks = <<0>>
  /\ pc = "raised"
  /\ result.kind = "TimeoutError"

C7_WitnessZeroElapsed ==
  /\ impl = "wrapper"
  /\ timeout_seconds = 0
  /\ checks = <<0>>
  /\ Len(outcomes) = 1

\* C8 (as claimed): no call, of the wrapper or of safe_invoke, is about to
\* sleep or has returned a result at an elapsed time above timeout_seconds.
C8_Original ==
  (pc \in {"sleep_exc", "sleep_unusable", "returned"}) =>
    now - start <= timeout_seconds

\* C8 (amended): timeout_seconds bounds the elapsed time at which an attempt
\* is started, whatever max_retries is: in both loops every attempt made, and
\* the one about to be made, passed a check that read elapsed <=
\* timeout_seconds. The attempt itself and the sleep after it are not bounded.
C8_AttemptsStartWithinBudget ==
  /\ (pc = "attempt") =>
       /\ now - start <= timeout_seconds
       /\ elapsed = now - start
       /\ Len(checks) = Len(outcomes) + 1
  /\ Len(checks) >= Len(outcomes)
  /\ \A i \in 1..Len(outcomes) : checks[i] <= timeout_seconds

\* a value is returned after the budget has elapsed
C8_Witness ==
  /\ pc = "returned"
  /\ Len(outcomes) = 2
  /\ checks[2] <= timeout_seconds
  /\ now - start > timeout_seconds

C8_WitnessPlanner ==
  /\ impl = "safe_invoke"
  /\ pc = "attempt"
  /\ attempt = 3
  /\ elapsed = timeout_seconds

C9_WitnessNone ==
  /\ pc = "classified"
  /\ res = None
  /\ ~ usable

C9_WitnessEmptyString ==
  /\ pc = "classified"
  /\ res = Prim("str", FALSE)
  /\ usable

C10_WitnessFalsyReturned ==
  /\ impl = "safe_invoke"
  /\ outcomes = <<"Unusable", "Usable">>
  /\ pc = "returned"
  /\ result = Returned(Dict(FALSE))

C10_WitnessReraised ==
  /\ impl = "safe_invoke"
  /\ outcomes = <<"Raised", "Raised", "Raised">>
  /\ raisedExcs = <<"E2", "E2", "E1">>
  /\ result = Reraised("E1")

(* ----------------------------------------------------------------------- *)
\* what a call must have given its caller, from the policy, what the
\* operation did on each attempt and what the clock read at each check
ExpectedKind(mr, to, ins, chks) ==
  IF chks # <<>> /\ chks[Len(chks)] > to THEN "TimeoutError"
  ELSE IF ins # <<>> /\ ins[Len(ins)] = "value" THEN "returned"
  ELSE IF Len(ins) >= mr /\ Len(ins) = Len(chks)
         THEN (IF ins[Len(ins)] = "raises" THEN "reraised" ELSE "RuntimeError")
  ELSE "none"

\* C11: two calls in flight on one wrapper do not share attempt state: under
\* every interleaving each call's attempt counter, backoff, sleep durations
\* and outcome are those its own attempts and its own clock readings give,
\* whatever the other call has done.
C11_ConcurrentCallsIndependent ==
  (pc = "concurrent") =>
    \A c \in CallIds :
      LET f == calls[c] IN
        /\ f.attempt = Len(f.checks)
        /\ (f.pc # "start") => f.backoff = retry_backoff * Pow2(Len(f.sleeps))
        /\ \A i \in 1..Len(f.sleeps) : f.sleeps[i] = retry_backoff * Pow2(i - 1)
        /\ Len(f.sleeps) = (IF f.pc \in {"start", "check", "attempt"} \/ f.kind = "TimeoutError"
                              THEN Len(f.inputs)
                              ELSE Len(f.inputs) - 1)
        /\ f.kind = ExpectedKind(max_retries, timeout_seconds, f.inputs, f.checks)
        /\ \A i \in 1..Len(f.checks) : f.checks[i] >= 0

\* one call has failed, slept 1 and doubled its backoff while the other is at
\* its first attempt with the initial backoff
C11_Witness ==
  /\ pc = "concurrent"
  /\ retry_backoff = 1
  /\ calls[1].sleeps = <<1>>
  /\ calls[1].inputs = <<"None">>
  /\ calls[1].backoff = 2
  /\ calls[1].pc = "attempt"
  /\ calls[2].pc = "attempt"
  /\ calls[2].attempt = 1
  /\ calls[2].backoff = 1

\* C12: a call leaves nothing behind. No step of a call changes the
\* wrapper's timeout_seconds, max_retries or retry_backoff, and a call made
\* after another has ended, however it ended and whatever attempt count and
\* backoff it had reached, starts at attempt 1 and sleeps retry_backoff first.
C12_FreshAttemptStatePerCall ==
  /\ [][UNCHANGED <<timeout_seconds, max_retries, retry_backoff>>]_vars
  /\ []((callNo >= 2 /\ impl = "wrapper" /\ pc \notin {"start", "concurrent"}) =>
          /\ Len(calls) = callNo - 1
          /\ attempt = Len(checks)
          /\ (pc = "attempt" /\ inputs = <<>>) => attempt = 1
          /\ backoff = retry_backoff * Pow2(Len(sleeps))
          /\ (sleeps # <<>>) => sleeps[1] = retry_backoff
          /\ Len(inputs) <= max_retries)

\* the first call ended exhausted with its backoff doubled; the second call
\* has failed once and slept the initial backoff
C12_Witness ==
  /\ callNo = 2
  /\ max_retries = 2
  /\ retry_backoff = 2
  /\ calls[1].kind = "RuntimeError"
  /\ calls[1].attempt = 2
  /\ calls[1].backoff = 4
  /\ sleeps = <<2>>
  /\ attempt = 2
  /\ pc = "attempt"

\* the second call follows one that timed out
C12_WitnessAfterTimeout ==
  /\ callNo = 2
  /\ calls[1].kind = "TimeoutError"
  /\ pc = "returned"
  /\ attempt = 1

\* C13 (as claimed): every error that ends a call, in the wrapper and in
\* safe_invoke, carries the number of attempts made and the elapsed time.
C13_Original ==
  (pc = "raised") =>
    /\ Len(inputs) \in (result.msg.attempts \cup result.msg.max_retries)
    /\ result.msg.elapsed # {}

\* C13 (amended): no terminal error carries the elapsed time. The number of
\* attempts made is named by safe_invoke's TimeoutError (attempt - 1) and, as
\* max_retries, by the RuntimeError raised on exhaustion, which in safe_invoke
\* names the goal too; the wrapper's TimeoutError names the timeout only, and
\* the exception re-raised after repeated exceptions is the operation's own,
\* with nothing added.
C13_WhatTerminalErrorsCarry ==
  (pc = "raised") =>
    /\ result.msg.elapsed = {}
    /\ (result.kind = "TimeoutError") =>
         /\ result.msg.timeout = {timeout_seconds}
         /\ result.msg.attempts = (IF impl = "safe_invoke" THEN {Len(inputs)} ELSE {})
         /\ Len(inputs) = attempt - 1
         /\ result.msg.max_retries = {}
         /\ result.msg.goal = {}
    /\ (result.kind = "RuntimeError") =>
         /\ result.msg.max_retries = {Len(inputs)}
         /\ Len(inputs) = attempt
         /\ result.msg.attempts = {}
         /\ result.msg.timeout = {}
         /\ result.msg.goal = (IF impl = "safe_invoke" THEN {goal} ELSE {})
    /\ (result.kind = "reraised") =>
         /\ result.msg = NoMsg
         /\ result.exc = raisedExcs[Len(raisedExcs)]

\* safe_invoke times out after two attempts
C13_Witness ==
  /\ impl = "safe_invoke"
  /\ pc = "raised"
  /\ result.kind = "TimeoutError"
  /\ result.msg.attempts = {2}
  /\ Len(inputs) = 2

\* the wrapper times out after two attempts and its error names no count
C13_WitnessWrapperTimeout ==
  /\ impl = "wrapper"
  /\ pc = "raised"
  /\ result.kind = "TimeoutError"
  /\ Len(inputs) = 2
  /\ result.msg.attempts = {}

\* C14: a failure of the logging sinks never leaves the retry loop and never
\* changes it: no call ends with the exception of a log call, and no attempt
\* is counted as failed because a log call raised.
C14_LogFailureNeverAffectsLoop ==
  (impl = "wrapper") =>
    /\ result.kind # "LogError"
    /\ result.exc # "LogError"
    /\ \A i \in 1..Len(outcomes) : outcomes[i] # "LogRaised"
    /\ attempt <= Len(inputs) + 1
    /\ \A i \in 1..Len(inputs) : inputs[i] # "not invoked"

\* C15: whatever name the target exposes is invoked, through do / check /
\* get or through __getattr__, the call runs the one retry loop: the operation
\* is invoked only after a pre-attempt check of the loop, and the attempts,
\* the sleeps and the outcome are those the policy, the operation's behaviour
\* and the clock readings give, the same for every name.
C15_UniformDispatch ==
  (pc # "dispatch" /\ method_name \in TargetOps) =>
    /\ Len(inputs) <= Len(checks)
    /\ Len(checks) <= Len(inputs) + 1
    /\ (pc # "start") => attempt = Len(checks)
    /\ result.kind = ExpectedKind(max_retries, timeout_seconds, inputs, checks)
    /\ \A i \in 1..Len(sleeps) : sleeps[i] = retry_backoff * Pow2(i - 1)
    /\ Len(sleeps) = (IF pc \in {"start", "check", "attempt"} \/ result.kind = "TimeoutError"
                        THEN Len(inputs)
                        ELSE Len(inputs) - 1)
    /\ (result.kind = "returned") => result.val = res

\* an operation reached through __getattr__ is retried after an exception
C15_Witness ==
  /\ method_name = "click"
  /\ pc = "returned"
  /\ inputs = <<"raises", "value">>
  /\ sleeps = <<1>>
  /\ attempt = 2

\* the same through a convenience operation
C15_WitnessConvenience ==
  /\ method_name = "check"
  /\ pc = "returned"
  /\ inputs = <<"raises", "value">>
  /\ sleeps = <<1>>
  /\ attempt = 2

\* C16: safe_invoke and _call_with_retries run the same algorithm: in both,
\* the number of attempts, the sleep durations and the kind of outcome are
\* one function of the policy values, the per-attempt outcomes (raises,
\* returns None, returns non-None) and the clock readings at the checks; the
\* function does not mention which of the two is running.
C16_SameAlgorithm ==
  (pc # "start") =>
    /\ attempt = Len(checks)
    /\ Len(inputs) <= attempt
    /\ attempt <= Len(inputs) + 1
    /\ result.kind = ExpectedKind(max_retries, timeout_seconds, inputs, checks)
    /\ sleeps = ExpectedSleeps(Len(sleeps))
    /\ Len(sleeps) = (IF pc \in {"check", "attempt"} \/ result.kind = "TimeoutError"
                        THEN Len(inputs)
                        ELSE Len(inputs) - 1)
    /\ (pc \in {"sleep_exc", "sleep_unusable"}) =>
         /\ Len(inputs) < max_retries
         /\ inputs[Len(inputs)] = (IF pc = "sleep_exc" THEN "raises" ELSE "None")
    /\ (pc = "returned") <=> (result.kind = "returned")
    /\ (pc = "raised") <=> (result.kind \in {"reraised", "RuntimeError", "TimeoutError"})

\* the interception retries after None and after an exception, then returns
C16_Witness ==
  /\ impl = "safe_invoke"
  /\ pc = "returned"
  /\ inputs = <<"None", "raises", "value">>
  /\ Len(sleeps) = 2

\* the proxy on the same outcome sequence
C16_WitnessWrapper ==
  /\ impl = "wrapper"
  /\ pc = "returned"
  /\ inputs = <<"None", "raises", "value">>
  /\ Len(sleeps) = 2

\* C17: the total timeout is looked at only in the check before an attempt.
\* A check lets the attempt start only when it read elapsed <=
\* timeout_seconds, and a TimeoutError arises in a check step and in no
\* other; an attempt that returns a usable value ends the call with that
\* value however late it is; a sleep lasts at least the whole backoff, is
\* recorded with the whole backoff, and leads to the next check without
\* raising.
C17_TimeoutOnlyAtBoundary ==
  [][ /\ (pc = "check" /\ pc' = "attempt") =>
           /\ elapsed' = now' - start
           /\ elapsed' <= timeout_seconds
      /\ (result'.kind = "TimeoutError" /\ result.kind # "TimeoutError") =>
           /\ pc = "check"
           /\ elapsed' > timeout_seconds
      /\ (pc = "attempt" /\ Len(inputs') > Len(inputs)
            /\ inputs'[Len(inputs')] = "value") =>
           /\ pc' = "returned"
           /\ result' = Returned(res')
      /\ (pc \in {"sleep_exc", "sleep_unusable"}) =>
           /\ now' >= now + backoff
           /\ sleeps' = Append(sleeps, backoff)
           /\ pc' = "check"
           /\ result' = result
    ]_vars

\* a sleep longer than what was left of the budget was performed in full and
\* the TimeoutError came at the check after it
C17_Witness ==
  /\ result.kind = "TimeoutError"
  /\ Len(sleeps) >= 1
  /\ Len(checks) = Len(sleeps) + 1
  /\ timeout_seconds > 0
  /\ checks[Len(sleeps)] <= timeout_seconds
  /\ sleeps[Len(sleeps)] > timeout_seconds - checks[Len(sleeps)]
  /\ checks[Len(checks)] >= checks[Len(sleeps)] + sleeps[Len(sleeps)]

\* a first attempt started within the budget returns after it
C17_WitnessLateReturn ==
  /\ impl = "wrapper"
  /\ pc = "returned"
  /\ attempt = 1
  /\ checks[1] <= timeout_seconds
  /\ now - start > timeout_seconds

\* C18: every call is bounded. At every moment the operation has been
\* invoked at most max_retries times and the call has slept at most
\* max_retries - 1 times; and, every step of the loop completing, the call
\* ends: it returns a value or raises the operation's error, the RuntimeError
\* of exhaustion or the TimeoutError.
C18_CallIsBounded ==
  /\ [](/\ Len(inputs) <= max_retries
        /\ attempt <= max_retries
        /\ Len(sleeps) <= max_retries - 1)
  /\ <>(/\ pc \in {"returned", "raised"}
        /\ result.kind \in {"returned", "reraised", "RuntimeError", "TimeoutError"})

\* a call that used every attempt and every sleep the policy allows
C18_Witness ==
  /\ pc = "raised"
  /\ max_retries = MaxRetriesBound
  /\ Len(inputs) = max_retries
  /\ Len(sleeps) = max_retries - 1
  /\ result.kind \in {"reraised", "RuntimeError"}

C19_WitnessEmptyOrRaising ==
  /\ pc = "classified"
  /\ res = Obj([a \in AllAttrs |-> IF a \in {"content", "message"} THEN "raises"
                                    ELSE IF a \in {"text", "choices"} THEN "falsy"
                                    ELSE "absent"])
  /\ usable

====
